---- MODULE Spec2Model ----
(***************************************************************************)
(* Verification model of the AI-driven end-to-end test runner:             *)
(*   - TestExecutorAgent.process (src/src/agents/test-executor.ts)         *)
(*   - PlaywrightMCPClient / MCPClient (src/src/mcp/browser.ts, client.ts) *)
(*   - LangGraphWorkflow (src/unnamed/part_000) and SimpleTestWorkflow     *)
(*     (src/src/workflow/simple-workflow.ts)                               *)
(* Six specifications share the variables: Spec (one executor with its     *)
(* backend client), WFSpec (the two workflow orchestrators), ClientSpec    *)
(* (concurrent calls on one MCPClient), FacadeSpec (PlaywrightMCPClient    *)
(* used on its own), SnapSpec (the snapshot parser) and RunsSpec (runs of  *)
(* LangGraphWorkflow instances that overlap).                              *)
(***************************************************************************)
EXTENDS Integers, Sequences, FiniteSets, TLC

\* ---------------------------------------------------------------- bounds
MaxSteps == 3
MaxOutcomes == 2
MaxPlan == 2
MaxCalls == 3
MaxLines == 3
MaxFacadeCalls == 3
MaxInitCalls == 2
MaxRunCalls == 1

\* ------------------------------------------------------------- constants
Undefined == "undefined"
\* the absent value of each optional field
NoError == <<>>
NoShot == <<>>
NoScenario == [source |-> Undefined]
NoResult == [status |-> Undefined]
NoAnalysis == [summary |-> Undefined, passed |-> FALSE]
NotConnectedMsg == <<"Client not connected. Call connect() first.">>
NotInitializedMsg == <<"Workflow not initialized. Call initialize() first.">>
StepTexts == {"step", ""}
OutcomeTexts == {"outcome", ""}
PlanTools == {"browser_click"}
AdvertisedTools == {"browser_navigate", "browser_click", "browser_snapshot"}
Instances == {1, 2}
\* the instance whose run() is followed node by node
Workflow == 1
Runs == {1, 2}

VARIABLES
  \* --- TestExecutorAgent.process
  pc,            \* position of the process() call
  rawSteps,      \* input.rawSteps
  rawOutcomes,   \* input.rawOutcomes
  result,        \* the TestResult under construction
  i,             \* loop index of executeRawStepsWithAI (1-based)
  plan,          \* calls of the current step's plan not yet executed
  stepResult,    \* the StepResult of the step in progress
  j,             \* loop index of verifyOutcomesWithAI (1-based)
  failedAt,      \* index of the step whose catch block ran (0: none)
  verdicts,      \* verdicts obtained from verifyRawOutcomeWithAI, in order
  trace,         \* calls made by the run, in order
  \* --- PlaywrightMCPClient / MCPClient
  isConnected,   \* MCPClient.isConnected
  client,        \* MCPClient.client: "null" or "obj"
  availableTools,\* PlaywrightMCPClient.availableTools
  \* --- concurrent calls on one MCPClient
  calls,         \* the invocations made on the MCPClient so far, in order
  \* --- workflow orchestrators
  wfKind,        \* "langgraph" | "simple"
  wpc,           \* position of run()/runStreaming()
  streaming,     \* runStreaming with an observer
  skipGeneration,\* options.skipGeneration of SimpleTestWorkflow
  input,         \* the input handed to run()
  state,         \* the WorkflowState
  nodes,         \* nodes invoked, in order
  agentCalls,    \* agents whose process() was called, in order
  emitted,       \* states handed to the observer, in order
  returned,      \* what run() resolved with (NoState while running)
  \* --- parseSnapshotYaml
  snapLine,      \* the line of the snapshot text handled last
  snapCount,     \* number of lines handled
  elements,      \* the ElementInfo list under construction
  \* --- PlaywrightMCPClient used on its own
  fcalls,        \* the calls made on the facade so far, in order
  currentUrl,    \* PlaywrightMCPClient._currentUrl ("null" or a url)
  \* --- LangGraphWorkflow instances of one module
  isInitialized, \* LangGraphWorkflow.isInitialized, per instance
  initPc,        \* position of the instance's initialize() call
  initCalls,     \* number of initialize() calls made on the instance
  built,         \* number of times the instance constructed the agents
  executorAgent, \* the module-level executorAgent: 0, or the instance that
                 \* constructed it (from its own mcpConfig)
  \* --- overlapping runs
  rpc,           \* position of each run
  winst,         \* the workflow instance whose run() started the run
  rexec,         \* the executor whose process() the run is in
  mcpClient,     \* isConnected and client of each executor's MCPClient
  conns,         \* the backend connections opened so far
  rtrace,        \* the backend calls made by the runs, in order
  \* --- what the backend of PlaywrightMCPClient saw and what was reported
  connections,   \* the connections established, each with the tools it
                 \* advertises and the tools/list requests sent on it
  lookups,       \* getAvailableTools / hasToolAvailable / getToolDefinition
                 \* calls, each with the tools it reported
  navigations,   \* the browser_navigate calls, each with its url argument
  \* --- LangGraphWorkflow.run / runStreaming
  rejection,     \* the error run() rejected with (NoError: it did not)
  \* --- backend requests of the executor
  inflight,      \* plan calls sent whose response has not been awaited yet
  plans,         \* the plan convertStepToMCPCalls returned for each step
  sentCalls      \* the browser.callTool calls of the plans, in order, each
                 \* with its step, its tool and how it settled

execVars == <<pc, rawSteps, rawOutcomes, result, i, plan, stepResult, j,
              failedAt, verdicts, trace>>
clientVars == <<isConnected, client, availableTools>>
callVars == <<calls>>
wfVars == <<wfKind, wpc, streaming, skipGeneration, input, state, nodes,
            agentCalls, emitted, returned>>
snapVars == <<snapLine, snapCount, elements>>
facadeVars == <<fcalls, currentUrl>>
initVars == <<isInitialized, initPc, initCalls, built, executorAgent>>
runVars == <<rpc, winst, rexec, mcpClient, conns, rtrace>>
cacheVars == <<connections, lookups, navigations>>
planVars == <<plans, sentCalls>>
vars == <<execVars, clientVars, callVars, wfVars, snapVars, facadeVars,
          initVars, runVars, cacheVars, rejection, inflight, planVars>>

\* --------------------------------------------------------------- helpers
SeqsUpTo(S, n) == UNION {[1..m -> S] : m \in 0..n}

Ev(e, k, s) == [ev |-> e, idx |-> k, sent |-> s, resp |-> "none"]

\* What one call of LangChainAIService.process ends with: a response that
\* passes JSON.parse and the schema, one that does not, or a rejection.
OracleResponses == {"valid", "invalid", "fail"}

\* the plans the oracle can return: up to MaxPlan calls, told apart by
\* their arguments
Plans ==
  {[k \in 1..Len(p) |-> [tool |-> p[k], args |-> k]] :
     p \in SeqsUpTo(PlanTools, MaxPlan)}

\* a browser.callTool call of the plan of step k: the guard of
\* MCPClient.callTool threw (not sent), or the request went out
Sent(k, call, sent) ==
  [step |-> k, call |-> call, sent |-> sent,
   status |-> IF sent THEN "pending" ELSE "not connected"]

\* the awaited call, the last one sent, settles with outcome o
Settle(log, o) == [log EXCEPT ![Len(log)].status = o]

\* a request for a plan for step k, with what the oracle answered
EvAI(k, r) == [ev |-> "ai", idx |-> k, sent |-> TRUE, resp |-> r]

\* Outcomes of one request on the SDK client, as MCPClient sees them.
RequestOutcomes == {"ok", "error", "timeout"}

\* step ids numbered from zero, like the loop index
RawStepIdFromZero(k) == <<"raw-step", k - 1>>

\* stepId: `raw-step-${i + 1}` for the loop index i = k - 1
RawStepId(k) == <<"raw-step", k>>

NewResult == [status |-> "passed", steps |-> <<>>, screenshots |-> <<>>,
              error |-> NoError]

NewStepResult(k) == [stepId |-> RawStepId(k), status |-> "passed",
                     error |-> NoError, screenshot |-> NoShot]

\* the WorkflowState that run() starts from
InitialState(inp, step) ==
  [input |-> inp, scenario |-> NoScenario, executionResult |-> NoResult,
   analysis |-> NoAnalysis, currentStep |-> step, error |-> NoError]

NoState == InitialState(Undefined, Undefined)

\* ------------------------------------------------------------------ Init
InitExec ==
  /\ pc = "idle"
  /\ rawSteps = <<>>
  /\ rawOutcomes = <<>>
  /\ result = NewResult
  /\ i = 0
  /\ plan = <<>>
  /\ stepResult = NewStepResult(0)
  /\ j = 0
  /\ failedAt = 0
  /\ verdicts = <<>>
  /\ trace = <<>>
  /\ inflight = 0
  /\ plans = <<>>
  /\ sentCalls = <<>>

InitClient ==
  /\ isConnected = FALSE
  /\ client = "null"
  /\ availableTools = {}

InitCalls ==
  /\ calls = <<>>

InitWFIdle ==
  /\ wfKind = "none"
  /\ wpc = "idle"
  /\ streaming = FALSE
  /\ skipGeneration = FALSE
  /\ input = Undefined
  /\ state = NoState
  /\ nodes = <<>>
  /\ agentCalls = <<>>
  /\ emitted = <<>>
  /\ returned = NoState
  /\ rejection = NoError

InitSnapshot ==
  /\ snapLine = <<>>
  /\ snapCount = 0
  /\ elements = <<>>

InitFacade ==
  /\ fcalls = <<>>
  /\ currentUrl = "null"

InitInstances ==
  /\ isInitialized = [w \in Instances |-> FALSE]
  /\ initPc = [w \in Instances |-> "idle"]
  /\ initCalls = [w \in Instances |-> 0]
  /\ built = [w \in Instances |-> 0]
  /\ executorAgent = 0

InitRuns ==
  /\ rpc = [r \in Runs |-> "idle"]
  /\ winst = [r \in Runs |-> 0]
  /\ rexec = [r \in Runs |-> 0]
  /\ mcpClient = [e \in Instances |-> [isConnected |-> FALSE, client |-> 0]]
  /\ conns = <<>>
  /\ rtrace = <<>>

InitCache ==
  /\ connections = <<>>
  /\ lookups = <<>>
  /\ navigations = <<>>

Init ==
  /\ InitExec /\ InitClient /\ InitCalls /\ InitWFIdle /\ InitSnapshot
  /\ InitFacade /\ InitInstances /\ InitRuns /\ InitCache

\* ============================================================ MCPClient
\* a guard that looks at the client object only
ClientReadyIgnoringFlag == client # "null"

\* The guard of MCPClient.listTools / callTool.
ClientReady == client # "null" /\ isConnected

TimedOut == {c \in DOMAIN calls : calls[c].status = "timeout"}

\* one invocation on the client: op is the method, sent says whether a
\* request was handed to the SDK client, after counts the calls that had
\* timed out when it was made
Invocation(op, status, sent) ==
  [op |-> op, status |-> status, sent |-> sent,
   after |-> Cardinality(TimedOut)]

\* the SDK client closes: every request still pending is rejected with a
\* connection-closed error
RejectPending(cs) ==
  [c \in DOMAIN cs |->
     IF cs[c].status = "pending" THEN [cs[c] EXCEPT !.status = "closed"]
     ELSE cs[c]]

\* transport.onerror / transport.onclose: the stream broke (closed = FALSE)
\* or the backend process went away (closed = TRUE).  Both handlers only
\* clear the flag; on a close the SDK client rejects what is pending.
TransportError ==
  /\ isConnected
  /\ isConnected' = FALSE
  /\ \E closed \in BOOLEAN :
       calls' = IF closed THEN RejectPending(calls) ELSE calls
  /\ UNCHANGED <<client, availableTools>>
  /\ UNCHANGED <<execVars, wfVars, snapVars, facadeVars, initVars, runVars,
                 cacheVars, rejection, inflight, planVars>>

\* ===================================================== TestExecutorAgent
Log(e) == trace' = Append(trace, e)

\* the catch block of process(): status = 'error', error = message
ProcessCatch(msg) ==
  /\ result' = [result EXCEPT !.status = "error", !.error = msg]
  /\ pc' = "finalShot"

\* process(input): a new run starts with a fresh TestResult
Process ==
  /\ pc = "idle"
  /\ \E steps \in SeqsUpTo(StepTexts, MaxSteps),
        outs \in SeqsUpTo(OutcomeTexts, MaxOutcomes) :
       /\ rawSteps' = steps
       /\ rawOutcomes' = outs
  /\ result' = NewResult
  /\ i' = 0
  /\ j' = 0
  /\ plan' = <<>>
  /\ stepResult' = NewStepResult(0)
  /\ failedAt' = 0
  /\ verdicts' = <<>>
  /\ trace' = <<>>
  /\ plans' = <<>>
  /\ sentCalls' = <<>>
  /\ pc' = "connect"
  /\ UNCHANGED <<clientVars, callVars, wfVars, snapVars, facadeVars,
                 initVars, runVars, cacheVars, rejection, inflight>>

\* browser.connect(), first half: MCPClient.connect()
Connect ==
  /\ pc = "connect"
  /\ IF isConnected
       THEN /\ Log(Ev("connect", 0, FALSE))
            /\ pc' = "listTools"
            /\ UNCHANGED <<result, isConnected, client>>
       ELSE /\ Log(Ev("connect", 0, TRUE))
            /\ client' = "obj"
            /\ \/ /\ isConnected' = TRUE
                  /\ pc' = "listTools"
                  /\ UNCHANGED result
               \/ /\ isConnected' = FALSE
                  /\ ProcessCatch(<<"Connection failed">>)
  /\ UNCHANGED <<rawSteps, rawOutcomes, i, plan, stepResult, j, failedAt,
                 verdicts, availableTools>>
  /\ UNCHANGED <<callVars, wfVars, snapVars, facadeVars, initVars, runVars,
                 cacheVars, rejection, inflight, planVars>>

\* browser.connect(), second half: MCPClient.listTools() and the tool cache
ListTools ==
  /\ pc = "listTools"
  /\ Log(Ev("listTools", 0, ClientReady))
  /\ LET next == IF Len(rawSteps) > 0 THEN "initSnap" ELSE "afterSteps" IN
     IF ~ClientReady
       THEN /\ ProcessCatch(NotConnectedMsg)
            /\ UNCHANGED availableTools
       ELSE \/ /\ availableTools' = AdvertisedTools
               /\ pc' = next
               /\ UNCHANGED result
            \/ /\ ProcessCatch(<<"tools/list failed">>)
               /\ UNCHANGED availableTools
  /\ UNCHANGED <<rawSteps, rawOutcomes, i, plan, stepResult, j, failedAt,
                 verdicts, isConnected, client>>
  /\ UNCHANGED <<callVars, wfVars, snapVars, facadeVars, initVars, runVars,
                 cacheVars, rejection, inflight, planVars>>

\* executeRawStepsWithAI: the snapshot taken before the loop.  getSnapshot
\* swallows every failure, so nothing can be thrown here.
InitSnap ==
  /\ pc = "initSnap"
  /\ Log(Ev("snapshot", 0, ClientReady))
  /\ i' = 1
  /\ pc' = "stepBegin"
  /\ UNCHANGED <<rawSteps, rawOutcomes, result, plan, stepResult, j,
                 failedAt, verdicts>>
  /\ UNCHANGED <<clientVars, callVars, wfVars, snapVars, facadeVars,
                 initVars, runVars, cacheVars, rejection, inflight, planVars>>

\* the catch block of one step: the step is marked failed, the run is marked
\* failed, and a failure screenshot is attempted next
StepCatch(msg) ==
  /\ stepResult' = [NewStepResult(i) EXCEPT !.status = "failed", !.error = msg]
  /\ result' = [result EXCEPT !.status = "failed"]
  /\ failedAt' = i
  /\ pc' = "failShot"

\* generateMCPCommands: the plan is returned only if the response parses and
\* passes MCPCallsSchema; everything else throws
GenerateThrows(r) == r # "valid"

\* a verifier whose catch block answers true
verifyOutcomePassingOnFailure(r, judged) == r # "valid" \/ judged

\* verifyOutcome: the result field of a response that parses and passes
\* VerificationResultSchema; false on every failure
verifyOutcome(r, judged) == r = "valid" /\ judged

\* loop head and convertStepToMCPCalls for step i
StepBegin ==
  /\ pc = "stepBegin"
  /\ IF i > Len(rawSteps)
       THEN /\ pc' = "afterSteps"
            /\ UNCHANGED <<result, plan, stepResult, failedAt, trace, plans>>
       ELSE IF rawSteps[i] = ""
         THEN /\ StepCatch(<<"Empty step">>)
              /\ UNCHANGED <<plan, trace, plans>>
         ELSE \E r \in OracleResponses :
                /\ Log(EvAI(i, r))
                /\ IF GenerateThrows(r)
                     THEN /\ StepCatch(<<"Failed to convert step", i, r>>)
                          /\ UNCHANGED <<plan, plans>>
                     ELSE \E p \in Plans :
                            /\ plan' = p
                            /\ plans' = Append(plans, p)
                            /\ stepResult' = NewStepResult(i)
                            /\ pc' = "planCall"
                            /\ UNCHANGED <<result, failedAt>>
  /\ UNCHANGED <<rawSteps, rawOutcomes, i, j, verdicts, sentCalls>>
  /\ UNCHANGED <<clientVars, callVars, wfVars, snapVars, facadeVars,
                 initVars, runVars, cacheVars, rejection, inflight>>

\* a plan whose calls are sent without awaiting the previous one
PlanCallNotAwaiting ==
  /\ pc = "planCall"
  /\ IF plan = <<>>
       THEN /\ pc' = "stepSnap"
            /\ UNCHANGED <<result, plan, stepResult, failedAt, trace, inflight,
                           sentCalls>>
       ELSE /\ Log(Ev("call", i, ClientReady))
            /\ IF ~ClientReady
                 THEN /\ StepCatch(<<"MCP call failed", NotConnectedMsg>>)
                      /\ sentCalls' = Append(sentCalls, Sent(i, plan[1], FALSE))
                      /\ UNCHANGED <<plan, inflight>>
                 ELSE /\ inflight' = inflight + 1
                      /\ sentCalls' = Append(sentCalls, Sent(i, plan[1], TRUE))
                      /\ plan' = Tail(plan)
                      /\ UNCHANGED <<result, stepResult, failedAt, pc>>
  /\ UNCHANGED <<rawSteps, rawOutcomes, i, j, verdicts, plans>>
  /\ UNCHANGED <<clientVars, callVars, wfVars, snapVars, facadeVars,
                 initVars, runVars, cacheVars, rejection>>

\* one call of the plan through browser.callTool, up to the await: the guard
\* of MCPClient.callTool throws at once, otherwise the request is sent
PlanCall ==
  /\ pc = "planCall"
  /\ IF plan = <<>>
       THEN /\ pc' = "stepSnap"
            /\ UNCHANGED <<result, plan, stepResult, failedAt, trace, inflight,
                           sentCalls>>
       ELSE /\ Log(Ev("call", i, ClientReady))
            /\ IF ~ClientReady
                 THEN /\ StepCatch(<<"MCP call failed", NotConnectedMsg>>)
                      /\ sentCalls' = Append(sentCalls, Sent(i, plan[1], FALSE))
                      /\ UNCHANGED <<plan, inflight>>
                 ELSE /\ inflight' = inflight + 1
                      /\ sentCalls' = Append(sentCalls, Sent(i, plan[1], TRUE))
                      /\ pc' = "planWait"
                      /\ UNCHANGED <<result, plan, stepResult, failedAt>>
  /\ UNCHANGED <<rawSteps, rawOutcomes, i, j, verdicts, plans>>
  /\ UNCHANGED <<clientVars, callVars, wfVars, snapVars, facadeVars,
                 initVars, runVars, cacheVars, rejection>>

\* the awaited call settles: the loop goes on with the next call of the
\* plan, or the rejection (an error, the 30 s timeout) fails the step
PlanReturn ==
  /\ pc = "planWait"
  /\ inflight' = inflight - 1
  /\ \E o \in RequestOutcomes :
       /\ sentCalls' = Settle(sentCalls, o)
       /\ IF o = "ok"
            THEN /\ plan' = Tail(plan)
                 /\ pc' = "planCall"
                 /\ UNCHANGED <<result, stepResult, failedAt>>
            ELSE /\ StepCatch(<<"MCP call failed", o>>)
                 /\ UNCHANGED plan
  /\ UNCHANGED <<rawSteps, rawOutcomes, i, j, verdicts, trace, plans>>
  /\ UNCHANGED <<clientVars, callVars, wfVars, snapVars, facadeVars,
                 initVars, runVars, cacheVars, rejection>>

\* the snapshot after the plan, then result.steps.push(stepResult)
StepSnap ==
  /\ pc = "stepSnap"
  /\ Log(Ev("snapshot", i, ClientReady))
  /\ result' = [result EXCEPT !.steps = Append(@, stepResult)]
  /\ i' = i + 1
  /\ pc' = "stepBegin"
  /\ UNCHANGED <<rawSteps, rawOutcomes, plan, stepResult, j, failedAt,
                 verdicts>>
  /\ UNCHANGED <<clientVars, callVars, wfVars, snapVars, facadeVars,
                 initVars, runVars, cacheVars, rejection, inflight, planVars>>

\* takeScreenshot: succeeds only if the backend answers with image data
ShotOutcomes == IF ClientReady THEN {"ok", "fail"} ELSE {"fail"}

\* the failure screenshot inside the step's catch block, then break
FailShot ==
  /\ pc = "failShot"
  /\ Log(Ev("shot", i, ClientReady))
  /\ \E o \in ShotOutcomes :
       IF o = "ok"
         THEN /\ stepResult' = [stepResult EXCEPT !.screenshot = <<"failed-step", i>>]
              /\ result' = [result EXCEPT !.screenshots = Append(@, <<"failed-step", i>>)]
         ELSE UNCHANGED <<stepResult, result>>
  /\ pc' = "afterSteps"
  /\ UNCHANGED <<rawSteps, rawOutcomes, i, plan, j, failedAt, verdicts>>
  /\ UNCHANGED <<clientVars, callVars, wfVars, snapVars, facadeVars,
                 initVars, runVars, cacheVars, rejection, inflight, planVars>>

\* a choice of verifier that does not look at the status
AfterStepsIgnoringStatus ==
  /\ pc = "afterSteps"
  /\ pc' = IF Len(rawOutcomes) > 0 THEN "netIdle" ELSE "a11y"
  /\ UNCHANGED <<rawSteps, rawOutcomes, result, i, plan, stepResult, j,
                 failedAt, verdicts, trace>>
  /\ UNCHANGED <<clientVars, callVars, wfVars, snapVars, facadeVars,
                 initVars, runVars, cacheVars, rejection, inflight, planVars>>

\* process(): the choice between verifyOutcomesWithAI and verifyOutcomes
\* (the latter loops over input.expectedOutcomes, which the parser leaves
\* empty)
AfterSteps ==
  /\ pc = "afterSteps"
  /\ pc' = IF result.status = "passed" /\ Len(rawOutcomes) > 0
             THEN "netIdle" ELSE "a11y"
  /\ UNCHANGED <<rawSteps, rawOutcomes, result, i, plan, stepResult, j,
                 failedAt, verdicts, trace>>
  /\ UNCHANGED <<clientVars, callVars, wfVars, snapVars, facadeVars,
                 initVars, runVars, cacheVars, rejection, inflight, planVars>>

\* verifyOutcomesWithAI: the wait for network idle; its failure is ignored
NetIdle ==
  /\ pc = "netIdle"
  /\ Log(Ev("netidle", 0, ClientReady))
  /\ j' = 1
  /\ pc' = "outcome"
  /\ UNCHANGED <<rawSteps, rawOutcomes, result, i, plan, stepResult,
                 failedAt, verdicts>>
  /\ UNCHANGED <<clientVars, callVars, wfVars, snapVars, facadeVars,
                 initVars, runVars, cacheVars, rejection, inflight, planVars>>

\* verifyOutcomesWithAI: one iteration of the loop over rawOutcomes
Outcome ==
  /\ pc = "outcome"
  /\ IF j > Len(rawOutcomes)
       THEN /\ pc' = "a11y"
            /\ UNCHANGED <<result, j, verdicts, trace>>
       ELSE IF rawOutcomes[j] = ""
         THEN /\ Log(Ev("snapshot", j, ClientReady))
              /\ j' = j + 1
              /\ UNCHANGED <<result, verdicts, pc>>
         ELSE \E r \in OracleResponses, judged \in BOOLEAN :
              LET v == verifyOutcome(r, judged) IN
                /\ trace' = trace \o <<Ev("snapshot", j, ClientReady),
                                       Ev("verify", j, TRUE)>>
                /\ verdicts' = Append(verdicts,
                                      [idx |-> j, ok |-> v, oracle |-> r])
                /\ IF v
                     THEN /\ j' = j + 1
                          /\ UNCHANGED <<result, pc>>
                     ELSE /\ result' = [result EXCEPT
                                 !.status = "failed",
                                 !.error = <<"Expected outcome failed", j>>]
                          /\ pc' = "outcomeShot"
                          /\ UNCHANGED j
  /\ UNCHANGED <<rawSteps, rawOutcomes, i, plan, stepResult, failedAt>>
  /\ UNCHANGED <<clientVars, callVars, wfVars, snapVars, facadeVars,
                 initVars, runVars, cacheVars, rejection, inflight, planVars>>

\* the screenshot after a failed outcome, then break
OutcomeShot ==
  /\ pc = "outcomeShot"
  /\ Log(Ev("shot", j, ClientReady))
  /\ \E o \in ShotOutcomes :
       IF o = "ok"
         THEN result' = [result EXCEPT !.screenshots = Append(@, <<"failed-outcome", j>>)]
         ELSE UNCHANGED result
  /\ pc' = "a11y"
  /\ UNCHANGED <<rawSteps, rawOutcomes, i, plan, stepResult, j, failedAt,
                 verdicts>>
  /\ UNCHANGED <<clientVars, callVars, wfVars, snapVars, facadeVars,
                 initVars, runVars, cacheVars, rejection, inflight, planVars>>

\* generateAccessibilityReport: one snapshot, every failure swallowed
A11y ==
  /\ pc = "a11y"
  /\ Log(Ev("snapshot", 0, ClientReady))
  /\ pc' = "finalShot"
  /\ UNCHANGED <<rawSteps, rawOutcomes, result, i, plan, stepResult, j,
                 failedAt, verdicts>>
  /\ UNCHANGED <<clientVars, callVars, wfVars, snapVars, facadeVars,
                 initVars, runVars, cacheVars, rejection, inflight, planVars>>

\* a cleanup in which a failing final screenshot escapes the finally block
FinalShotEscaping ==
  /\ pc = "finalShot"
  /\ Log(Ev("shot", 0, ClientReady))
  /\ \E o \in ShotOutcomes :
       IF o = "ok"
         THEN /\ result' = [result EXCEPT !.screenshots = Append(@, <<"final-state">>)]
              /\ pc' = "disconnect"
         ELSE /\ result' = [result EXCEPT !.status = "error"]
              /\ pc' = "done"
  /\ UNCHANGED <<rawSteps, rawOutcomes, i, plan, stepResult, j, failedAt,
                 verdicts>>
  /\ UNCHANGED <<clientVars, callVars, wfVars, snapVars, facadeVars,
                 initVars, runVars, cacheVars, rejection, inflight, planVars>>

\* finally: the final screenshot
FinalShot ==
  /\ pc = "finalShot"
  /\ Log(Ev("shot", 0, ClientReady))
  /\ \E o \in ShotOutcomes :
       IF o = "ok"
         THEN result' = [result EXCEPT !.screenshots = Append(@, <<"final-state">>)]
         ELSE UNCHANGED result
  /\ pc' = "disconnect"
  /\ UNCHANGED <<rawSteps, rawOutcomes, i, plan, stepResult, j, failedAt,
                 verdicts>>
  /\ UNCHANGED <<clientVars, callVars, wfVars, snapVars, facadeVars,
                 initVars, runVars, cacheVars, rejection, inflight, planVars>>

\* MCPClient.disconnect(): close() is called only on a connected client; if
\* close() throws, the three assignments after it are skipped
ClientDisconnect(closeOk) ==
  IF ClientReady /\ closeOk
    THEN /\ isConnected' = FALSE
         /\ client' = "null"
    ELSE UNCHANGED <<isConnected, client>>

\* a cleanup in which a failing close() escapes process(): the promise
\* rejects instead of resolving with the TestResult
DisconnectEscaping ==
  /\ pc = "disconnect"
  /\ Log(Ev("disconnect", 0, ClientReady))
  /\ \E closeOk \in BOOLEAN :
       /\ ClientDisconnect(closeOk)
       /\ pc' = IF ClientReady /\ ~closeOk THEN "rejected" ELSE "done"
  /\ UNCHANGED <<rawSteps, rawOutcomes, result, i, plan, stepResult, j,
                 failedAt, verdicts, availableTools>>
  /\ UNCHANGED <<callVars, wfVars, snapVars, facadeVars, initVars, runVars,
                 cacheVars, rejection, inflight, planVars>>

\* finally: browser.disconnect(), its failure logged and dropped
Disconnect ==
  /\ pc = "disconnect"
  /\ Log(Ev("disconnect", 0, ClientReady))
  /\ \E closeOk \in BOOLEAN : ClientDisconnect(closeOk)
  /\ pc' = "done"
  /\ UNCHANGED <<rawSteps, rawOutcomes, result, i, plan, stepResult, j,
                 failedAt, verdicts, availableTools>>
  /\ UNCHANGED <<callVars, wfVars, snapVars, facadeVars, initVars, runVars,
                 cacheVars, rejection, inflight, planVars>>

Next ==
  \/ Process
  \/ Connect
  \/ ListTools
  \/ InitSnap
  \/ StepBegin
  \/ PlanCall
  \/ PlanReturn
  \/ StepSnap
  \/ FailShot
  \/ AfterSteps
  \/ NetIdle
  \/ Outcome
  \/ OutcomeShot
  \/ A11y
  \/ FinalShot
  \/ Disconnect
  \/ TransportError

Spec == Init /\ [][Next]_vars

\* ================================== concurrent calls on one MCPClient
\* MCPClient.connect()
CConnect ==
  /\ ~isConnected
  /\ client' = "obj"
  /\ isConnected' \in BOOLEAN
  /\ UNCHANGED <<availableTools, calls>>
  /\ UNCHANGED <<execVars, wfVars, snapVars, facadeVars, initVars, runVars,
                 cacheVars, rejection, inflight, planVars>>

\* MCPClient.disconnect(): resolves unless close() threw; a close that
\* succeeds rejects the pending requests
CDisconnect ==
  /\ Len(calls) < MaxCalls
  /\ \E closeOk \in BOOLEAN :
       /\ ClientDisconnect(closeOk)
       /\ calls' = Append(
            IF ClientReady /\ closeOk THEN RejectPending(calls) ELSE calls,
            Invocation("disconnect",
                       IF ClientReady /\ ~closeOk THEN "error" ELSE "ok",
                       ClientReady))
  /\ UNCHANGED availableTools
  /\ UNCHANGED <<execVars, wfVars, snapVars, facadeVars, initVars, runVars,
                 cacheVars, rejection, inflight, planVars>>

Requests == {"callTool", "listTools"}

\* callTool / listTools up to the await: the guard rejects at once on a
\* client that is not connected, otherwise the request is handed to the SDK
\* client
CCallStart ==
  /\ Len(calls) < MaxCalls
  /\ \E op \in Requests :
       calls' = Append(calls,
         Invocation(op, IF ClientReady THEN "pending" ELSE "notconnected",
                    ClientReady))
  /\ UNCHANGED <<clientVars, execVars, wfVars, snapVars, facadeVars,
                 initVars, runVars, cacheVars, rejection, inflight, planVars>>

\* a variant of the catch block that treats a failed request as a lost
\* connection
CCallSettleDroppingConnection ==
  \E c \in DOMAIN calls, o \in RequestOutcomes :
    /\ calls[c].status = "pending"
    /\ o = "ok" => client # "null"
    /\ calls' = [calls EXCEPT ![c].status = o]
    /\ isConnected' = (isConnected /\ o = "ok")
    /\ UNCHANGED <<client, availableTools>>
    /\ UNCHANGED <<execVars, wfVars, snapVars, facadeVars, initVars, runVars,
                   cacheVars, rejection, inflight, planVars>>

\* callTool after the await: the request resolved (the response is returned)
\* or rejected, by a timeout or an error (logged and rethrown)
CCallSettle ==
  \E c \in DOMAIN calls, o \in RequestOutcomes :
    /\ calls[c].status = "pending"
    /\ o = "ok" => client # "null"
    /\ calls' = [calls EXCEPT ![c].status = o]
    /\ UNCHANGED <<clientVars, execVars, wfVars, snapVars, facadeVars,
                   initVars, runVars, cacheVars, rejection, inflight,
                   planVars>>

ClientInit == Init

ClientNext ==
  \/ CConnect
  \/ CDisconnect
  \/ CCallStart
  \/ CCallSettle
  \/ TransportError

ClientSpec == ClientInit /\ [][ClientNext]_vars

\* ============================================== PlaywrightMCPClient
\* One call on the facade: requests are the backend requests it sent,
\* failure is the error its MCPClient call failed with, thrown the error the
\* facade call rejected with (NoError: it resolved).
FacadeCall(op, requests, failure, thrown) ==
  [op |-> op, requests |-> requests, failure |-> failure, thrown |-> thrown]

FLog(rec) == fcalls' = Append(fcalls, rec)

\* what a request through MCPClient.callTool / listTools ends with
RequestError(o) == IF o = "ok" THEN NoError ELSE <<o>>

Urls == {"/login", "/home", ""}

\* the tools a backend connection can advertise
ToolSets == {AdvertisedTools, {"browser_navigate"}}

\* the calls made on the facade so far, lookups included
FacadeCalls == Len(fcalls) + Len(lookups)

\* the connection the MCPClient is on: its index in connections, 0 if none
CurrentConnection == IF ClientReady THEN Len(connections) ELSE 0

\* PlaywrightMCPClient.connect: MCPClient.connect, then listTools and the
\* tool cache; nothing is caught
FConnect ==
  /\ FacadeCalls < MaxFacadeCalls
  /\ \E connected \in BOOLEAN, o \in RequestOutcomes, tools \in ToolSets :
       LET attempt == ~isConnected
           up == isConnected \/ connected
           reqs == (IF attempt THEN <<"connect">> ELSE <<>>) \o
                   (IF up THEN <<"tools/list">> ELSE <<>>)
           err == IF ~up THEN <<"Connection failed">> ELSE RequestError(o)
           cs == IF attempt /\ connected
                   THEN Append(connections, [tools |-> tools, listed |-> 0])
                   ELSE connections
       IN /\ attempt \/ connected
          /\ (attempt /\ connected) \/ tools = AdvertisedTools
          /\ client' = IF attempt THEN "obj" ELSE client
          /\ isConnected' = up
          /\ connections' = IF up THEN [cs EXCEPT ![Len(cs)].listed = @ + 1]
                            ELSE cs
          /\ availableTools' = IF up /\ o = "ok" THEN cs[Len(cs)].tools
                               ELSE availableTools
          /\ FLog(FacadeCall("connect", reqs, err, err))
  /\ UNCHANGED <<currentUrl, lookups, navigations>>
  /\ UNCHANGED <<execVars, callVars, wfVars, snapVars, initVars, runVars,
                 rejection, inflight, planVars>>

\* getAvailableTools / hasToolAvailable / getToolDefinition: a read of
\* this.availableTools, no request
LookupOps == {"getAvailableTools", "hasToolAvailable", "getToolDefinition"}

FLookup ==
  /\ FacadeCalls < MaxFacadeCalls
  /\ \E op \in LookupOps :
       lookups' = Append(lookups,
         [op |-> op, requests |-> <<>>, reported |-> availableTools,
          conn |-> CurrentConnection])
  /\ UNCHANGED <<connections, navigations>>
  /\ UNCHANGED <<clientVars, execVars, callVars, wfVars, snapVars,
                 facadeVars, initVars, runVars, rejection, inflight,
                 planVars>>

\* PlaywrightMCPClient.callTool (navigate is callTool('browser_navigate',
\* { url })): the error is logged and rethrown, a navigation that succeeded
\* with a url sets _currentUrl
FCallTool ==
  /\ FacadeCalls < MaxFacadeCalls
  /\ \E op \in {"callTool", "navigate"}, tool \in PlanTools \cup {"browser_navigate"},
        url \in Urls, o \in RequestOutcomes :
       LET err == IF ClientReady THEN RequestError(o) ELSE NotConnectedMsg IN
       /\ op = "navigate" => tool = "browser_navigate"
       /\ tool # "browser_navigate" => url = ""
       /\ FLog(FacadeCall(op, IF ClientReady THEN <<tool>> ELSE <<>>, err, err))
       /\ currentUrl' = IF err = NoError /\ tool = "browser_navigate" /\ url # ""
                          THEN url ELSE currentUrl
       /\ navigations' = IF tool = "browser_navigate"
                            THEN Append(navigations,
                                        [url |-> url, failure |-> err])
                            ELSE navigations
  /\ UNCHANGED <<connections, lookups>>
  /\ UNCHANGED <<clientVars, execVars, callVars, wfVars, snapVars, initVars,
                 runVars, rejection, inflight, planVars>>

\* PlaywrightMCPClient.getSnapshot: callTool('browser_snapshot'); the catch
\* block logs the error and returns { elements: [], rawYaml: '' }
FGetSnapshot ==
  /\ FacadeCalls < MaxFacadeCalls
  /\ \E o \in RequestOutcomes :
       LET err == IF ClientReady THEN RequestError(o) ELSE NotConnectedMsg IN
       FLog(FacadeCall("getSnapshot",
                       IF ClientReady THEN <<"browser_snapshot">> ELSE <<>>,
                       err, NoError))
  /\ UNCHANGED <<currentUrl, clientVars, execVars, callVars, wfVars,
                 snapVars, initVars, runVars, cacheVars, rejection, inflight,
                 planVars>>

\* PlaywrightMCPClient.disconnect
FDisconnect ==
  /\ FacadeCalls < MaxFacadeCalls
  /\ \E closeOk \in BOOLEAN :
       LET err == IF ClientReady /\ ~closeOk THEN <<"close failed">>
                  ELSE NoError IN
       /\ ClientDisconnect(closeOk)
       /\ FLog(FacadeCall("disconnect",
                          IF ClientReady THEN <<"close">> ELSE <<>>, err, err))
  /\ UNCHANGED <<availableTools, currentUrl, execVars, callVars, wfVars,
                 snapVars, initVars, runVars, cacheVars, rejection, inflight,
                 planVars>>

FacadeNext ==
  \/ FConnect
  \/ FLookup
  \/ FCallTool
  \/ FGetSnapshot
  \/ FDisconnect
  \/ TransportError

FacadeSpec == Init /\ [][FacadeNext]_vars

\* ===================================================== snapshot parser
\* Lines of a snapshot text, as sequences of tokens; "[ref=" stands for the
\* five characters, "e", "f", "disabled" and "active" for runs of word
\* characters, the other tokens for themselves.
IsWord(t) == t \in {"e", "f", "disabled", "active"}

\* the line '- <role> "<name>" [ref=<id>]: <free text>'
ElementLine(role, name, id, text) ==
  <<"-", " ">> \o role \o <<" ", "\"">> \o name \o <<"\"", " ", "[ref=">>
    \o id \o <<"]", ":", " ">> \o text

SnapshotLines ==
  { <<>>,
    <<" ", " ">>,
    <<"#", " ", "e">>,
    <<"#", "[ref=", "e", "]">>,
    <<" ", "#", "[ref=", "e", "]">>,
    <<"-", " ", "e">>,
    <<"-", " ", "e", "[ref=", "e", "]">>,
    <<" ", "-", " ", "f", "[ref=", "f", "]", " ">>,
    <<"e", "[ref=", "e", "#", "]">>,
    <<"e", "[ref=", "]">>,
    <<"e", "[ref=", "e">>,
    <<"e", "]", "[ref=", "]", "[ref=", "f", "]">>,
    <<"-", "[ref=", "e", "]", "[ref=", "f", "]">>,
    ElementLine(<<"e">>, <<"f">>, <<"e">>, <<"f", " ", "e">>),
    <<"-", " ", "f", "[ref=", "e", "]", ")", ":", " ", "f", " ">>,
    <<"-", " ", "[ref=", "e", "]", " ", "[", "disabled", "]">>,
    <<"-", " ", "e", " ", "[", "active", "]", "[ref=", "f", "]">>,
    <<"-", " ", "e", " ", "[ref=", "f", "]", ":", " ", "\"", "e", "\"">> }

\* a trim that leaves the line as it is
TrimNothing(l) == l

\* String.prototype.trim
Trim(l) ==
  LET ns == {k \in 1..Len(l) : l[k] # " "} IN
  IF ns = {} THEN <<>>
  ELSE SubSeq(l, CHOOSE k \in ns : \A m \in ns : k <= m,
                 CHOOSE k \in ns : \A m \in ns : k >= m)

\* parseElementLine returns null
NoElement == [ref |-> <<>>]

\* the least member of a non-empty set of positions: the leftmost match
Leftmost(S) == CHOOSE k \in S : \A m \in S : k <= m

\* the type when /^\s*-\s*(\w+)/ does not match
Generic == <<"generic">>

\* line.match(/^\s*-\s*(\w+)/): the run of word characters that follows the
\* leading dash
TypeOf(line) ==
  LET dashes == {p \in 1..Len(line) :
                   line[p] = "-" /\ \A k \in 1..(p - 1) : line[k] = " "}
  IN IF dashes = {} THEN Generic
     ELSE LET d == Leftmost(dashes)
              rest == {k \in (d + 1)..Len(line) : line[k] # " "}
          IN IF rest = {} THEN Generic
             ELSE LET w == Leftmost(rest)
                      stop == {k \in w..Len(line) : ~IsWord(line[k])}
                               \cup {Len(line) + 1}
                  IN IF IsWord(line[w])
                       THEN SubSeq(line, w, Leftmost(stop) - 1)
                       ELSE Generic

\* line.match(/"([^"]+)"/): the first non-empty quoted run, <<>> if none
NameOf(line) ==
  LET closes(p) == {q \in (p + 1)..Len(line) : line[q] = "\""}
      starts == {p \in 1..Len(line) :
                   /\ line[p] = "\""
                   /\ closes(p) # {}
                   /\ Leftmost(closes(p)) > p + 1}
  IN IF starts = {} THEN <<>>
     ELSE LET p == Leftmost(starts)
          IN SubSeq(line, p + 1, Leftmost(closes(p)) - 1)

\* line.match(/\):\s*(.+)$/)?.[1]?.trim(): what follows the first "):" that
\* has something after it, trimmed; <<>> if there is none
TextOf(line) ==
  LET starts == {p \in 1..(Len(line) - 2) :
                   line[p] = ")" /\ line[p + 1] = ":"}
  IN IF starts = {} THEN <<>>
     ELSE Trim(SubSeq(line, Leftmost(starts) + 2, Len(line)))

\* line.includes('[disabled]'), line.includes('[active]')
Includes(line, marker) ==
  \E p \in 1..(Len(line) - 2) : SubSeq(line, p, p + 2) = <<"[", marker, "]">>

\* parseElementLine: the leftmost match of /\[ref=([^\]]+)\]/ gives ref,
\* null if there is none; the other fields come from the same line
parseElementLine(line) ==
  LET starts == {p \in 1..Len(line) :
                   /\ line[p] = "[ref="
                   /\ \E q \in (p + 2)..Len(line) :
                        /\ line[q] = "]"
                        /\ \A k \in (p + 1)..(q - 1) : line[k] # "]"}
  IN IF starts = {} THEN NoElement
     ELSE LET p == CHOOSE k \in starts : \A m \in starts : k <= m
              q == CHOOSE k \in (p + 2)..Len(line) :
                     /\ line[k] = "]"
                     /\ \A m \in (p + 1)..(k - 1) : line[m] # "]"
          IN [ref |-> SubSeq(line, p + 1, q - 1),
              type |-> TypeOf(line),
              name |-> NameOf(line),
              text |-> TextOf(line),
              disabled |-> Includes(line, "disabled"),
              active |-> Includes(line, "active")]

\* parseSnapshotYaml, entry: elements = []
ParseSnapshotYaml ==
  /\ snapCount > 0
  /\ snapLine' = <<>>
  /\ snapCount' = 0
  /\ elements' = <<>>
  /\ UNCHANGED <<execVars, clientVars, callVars, wfVars, facadeVars,
                 initVars, runVars, cacheVars, rejection, inflight, planVars>>

\* parseSnapshotYaml, one iteration of the loop over the lines
ParseLine ==
  /\ snapCount < MaxLines
  /\ \E raw \in SnapshotLines :
       LET line == Trim(raw)
           skip == line = <<>> \/ line[1] = "#"
           el == parseElementLine(line)
       IN /\ snapLine' = raw
          /\ elements' = IF skip \/ el = NoElement THEN elements
                         ELSE Append(elements,
                                [ref |-> el.ref, line |-> snapCount + 1,
                                 type |-> el.type, name |-> el.name,
                                 text |-> el.text, disabled |-> el.disabled,
                                 active |-> el.active])
  /\ snapCount' = snapCount + 1
  /\ UNCHANGED <<execVars, clientVars, callVars, wfVars, facadeVars,
                 initVars, runVars, cacheVars, rejection, inflight, planVars>>

SnapNext ==
  \/ ParseSnapshotYaml
  \/ ParseLine

SnapSpec == Init /\ [][SnapNext]_vars

\* ============================== workflow instances and overlapping runs
\* an initialize() without the isInitialized guard
InitializeCallIgnoringFlag(w) ==
  /\ initPc[w] = "idle"
  /\ initCalls[w] < MaxInitCalls
  /\ initCalls' = [initCalls EXCEPT ![w] = @ + 1]
  /\ initPc' = [initPc EXCEPT ![w] = "await"]
  /\ UNCHANGED <<isInitialized, built, executorAgent>>

\* LangGraphWorkflow.initialize() up to `await this.aiService.initialize()`:
\* it returns at once on an initialized instance.  The calls on one instance
\* are made one after the other.
InitializeCall(w) ==
  /\ initPc[w] = "idle"
  /\ initCalls[w] < MaxInitCalls
  /\ initCalls' = [initCalls EXCEPT ![w] = @ + 1]
  /\ initPc' = [initPc EXCEPT ![w] = IF isInitialized[w] THEN "idle" ELSE "await"]
  /\ UNCHANGED <<isInitialized, built, executorAgent>>

\* initialize() after the await: the module-level executorAgent and
\* analysisAgent are constructed from this instance's config and the flag is
\* set; nothing happens if aiService.initialize() rejected
InitializeDone(w) ==
  /\ initPc[w] = "await"
  /\ initPc' = [initPc EXCEPT ![w] = "idle"]
  /\ \/ /\ executorAgent' = w
        /\ built' = [built EXCEPT ![w] = @ + 1]
        /\ isInitialized' = [isInitialized EXCEPT ![w] = TRUE]
     \/ UNCHANGED <<executorAgent, built, isInitialized>>
  /\ UNCHANGED initCalls

\* initialize() on one of the instances, as a step of the module
Initialize ==
  /\ \E w \in Instances : InitializeCall(w) \/ InitializeDone(w)
  /\ UNCHANGED <<execVars, clientVars, callVars, wfVars, snapVars,
                 facadeVars, runVars, cacheVars, rejection, inflight,
                 planVars>>

\* run(input) on an initialized instance: app.invoke starts the graph
RunStart(r) ==
  /\ rpc[r] = "idle"
  /\ \E w \in Instances :
       /\ isInitialized[w]
       /\ winst' = [winst EXCEPT ![r] = w]
  /\ rpc' = [rpc EXCEPT ![r] = "execute"]
  /\ UNCHANGED <<rexec, mcpClient, conns, rtrace>>

\* executeTestNode: executorAgent.process(state.scenario) is called on
\* whatever the module-level variable holds at that moment
RunExecute(r) ==
  /\ rpc[r] = "execute"
  /\ rexec' = [rexec EXCEPT ![r] = executorAgent]
  /\ rpc' = [rpc EXCEPT ![r] = "connect"]
  /\ UNCHANGED <<winst, mcpClient, conns, rtrace>>

\* MCPClient.connect() of the run's executor up to `await client.connect`:
\* it returns at once if the client is connected, otherwise a transport and a
\* client are created from the executor's config and stored
RunConnect(r) ==
  /\ rpc[r] = "connect"
  /\ LET e == rexec[r] IN
     IF mcpClient[e].isConnected
       THEN /\ rpc' = [rpc EXCEPT ![r] = "calls"]
            /\ UNCHANGED <<mcpClient, conns>>
       ELSE /\ conns' = Append(conns, [by |-> r, config |-> e, open |-> TRUE])
            /\ mcpClient' = [mcpClient EXCEPT ![e].client = Len(conns) + 1]
            /\ rpc' = [rpc EXCEPT ![r] = "connecting"]
  /\ UNCHANGED <<winst, rexec, rtrace>>

\* the connection opened by run r
OpenedBy(r) == CHOOSE c \in DOMAIN conns : conns[c].by = r

\* MCPClient.connect() after the await: isConnected = true, or the rejection
\* is rethrown and process() goes to its cleanup
RunConnected(r) ==
  /\ rpc[r] = "connecting"
  /\ \/ /\ mcpClient' = [mcpClient EXCEPT ![rexec[r]].isConnected = TRUE]
        /\ rpc' = [rpc EXCEPT ![r] = "calls"]
        /\ UNCHANGED conns
     \/ /\ conns' = [conns EXCEPT ![OpenedBy(r)].open = FALSE]
        /\ rpc' = [rpc EXCEPT ![r] = "cleanup"]
        /\ UNCHANGED mcpClient
  /\ UNCHANGED <<winst, rexec, rtrace>>

\* the backend calls run r made so far
CallsOfRun(r) == {n \in DOMAIN rtrace : rtrace[n].run = r}

\* one backend call of the run (listTools, a plan call, a snapshot) through
\* the MCPClient of its executor: it goes to the client stored there, or
\* throws 'Client not connected' and the run goes to its cleanup
RunCall(r) ==
  /\ rpc[r] = "calls"
  /\ Cardinality(CallsOfRun(r)) < MaxRunCalls
  /\ LET m == mcpClient[rexec[r]] IN
     IF m.client # 0 /\ m.isConnected
       THEN /\ rtrace' = Append(rtrace, [run |-> r, conn |-> m.client])
            /\ UNCHANGED rpc
       ELSE /\ rpc' = [rpc EXCEPT ![r] = "cleanup"]
            /\ UNCHANGED rtrace
  /\ UNCHANGED <<winst, rexec, mcpClient, conns>>

\* the steps and outcomes of the run are through: finally
RunFinally(r) ==
  /\ rpc[r] = "calls"
  /\ rpc' = [rpc EXCEPT ![r] = "cleanup"]
  /\ UNCHANGED <<winst, rexec, mcpClient, conns, rtrace>>

\* MCPClient.disconnect() in the cleanup of the run: the client stored in
\* the executor's MCPClient is closed if the flag is set; if close() throws
\* the fields stay as they are
RunDisconnect(r) ==
  /\ rpc[r] = "cleanup"
  /\ LET e == rexec[r]
         m == mcpClient[e]
     IN \E closeOk \in BOOLEAN :
        IF m.client # 0 /\ m.isConnected /\ closeOk
          THEN /\ conns' = [conns EXCEPT ![m.client].open = FALSE]
               /\ mcpClient' = [mcpClient EXCEPT
                                  ![e] = [isConnected |-> FALSE, client |-> 0]]
          ELSE UNCHANGED <<mcpClient, conns>>
  /\ rpc' = [rpc EXCEPT ![r] = "done"]
  /\ UNCHANGED <<winst, rexec, rtrace>>

\* one step of one of the runs
Run ==
  /\ \E r \in Runs :
       \/ RunStart(r)
       \/ RunExecute(r)
       \/ RunConnect(r)
       \/ RunConnected(r)
       \/ RunCall(r)
       \/ RunFinally(r)
       \/ RunDisconnect(r)
  /\ UNCHANGED <<execVars, clientVars, callVars, wfVars, snapVars,
                 facadeVars, initVars, cacheVars, rejection, inflight,
                 planVars>>

RunsNext ==
  \/ Initialize
  \/ Run

RunsSpec == Init /\ [][RunsNext]_vars

\* ================================================= workflow orchestrators
NoStepsInput == "markdown without steps"
Inputs == {"markdown A", "markdown B", NoStepsInput, "null"}
Messages == {"boom", "timeout"}
Statuses == {"passed", "failed", "error"}

\* parseMarkdownToScenario: splits the text into lines; a non-string input
\* makes markdown.split throw a TypeError
ParseThrows(inp) == inp = "null"
ParseMarkdownToScenario(inp) == [source |-> inp]

\* scenario.rawSteps.length > 0: the markdown had a bullet under
\* '## Test Steps'
HasRawSteps(scenario) == scenario.source # NoStepsInput

\* what TestExecutorAgent.process can resolve with
ExecResults == {[status |-> st] : st \in Statuses}

\* an analysis that counts every run that did not fail a step as passed
AgentAnalysisPassingOnError(res) ==
  [summary |-> "ai", passed |-> (res.status # "failed")]

\* AnalysisAgent.process: passed comes from generateBasicAnalysis
AgentAnalysis(res) == [summary |-> "ai", passed |-> (res.status = "passed")]

\* the fallback analysis of SimpleTestWorkflow.analyzeResults
FallbackAnalysis(res) == [summary |-> "Analysis failed due to error",
                          passed |-> (res.status = "passed")]

\* a merge in which the patch replaces the whole state
MergeReplacing(st, patch) ==
  [f \in DOMAIN st |->
     IF f \in DOMAIN patch THEN patch[f]
     ELSE InitialState(st.input, st.currentStep)[f]]

\* A patch is a function from field names to values.  Every channel of
\* graphState has the reducer (x, y) => y, and SimpleTestWorkflow spreads
\* { ...state, ...patch }: the fields of the patch replace, the others stay.
Merge(st, patch) ==
  [f \in DOMAIN st |-> IF f \in DOMAIN patch THEN patch[f] ELSE st[f]]

Call(agent, ok, val) == [agent |-> agent, ok |-> ok, val |-> val]

\* a node ran and left the state st
Visit(name, st) == nodes' = Append(nodes, [node |-> name, st |-> st])

\* an observer that is called only with states that carry no error
EmitSkippingErrors(sts) ==
  emitted' = IF streaming
               THEN emitted \o SelectSeq(sts, LAMBDA st : st.error = NoError)
               ELSE emitted

\* the observer callback, when runStreaming was given one
Emit(sts) == emitted' = IF streaming THEN emitted \o sts ELSE emitted

\* a routing function that forgets to look at error
decideNextStepIgnoringError(st) == "analyze"

\* decideNextStep
decideNextStep(st) ==
  IF st.error # NoError THEN "end" ELSE st.currentStep

\* run(input) / runStreaming(input, onUpdate): LangGraphWorkflow throws on
\* an instance that is not initialized; otherwise the initial state
WFRun ==
  /\ wpc = "idle"
  /\ \E inp \in Inputs, str \in BOOLEAN, skip \in BOOLEAN :
       /\ wfKind = "langgraph" => ~skip
       /\ input' = inp
       /\ streaming' = str
       /\ skipGeneration' = skip
       /\ IF wfKind = "langgraph" /\ ~isInitialized[Workflow]
            THEN /\ rejection' = NotInitializedMsg
                 /\ wpc' = "rejected"
                 /\ UNCHANGED state
            ELSE /\ state' = InitialState(inp,
                               IF wfKind = "langgraph" THEN "parse"
                               ELSE IF skip THEN "execute" ELSE "generate")
                 /\ wpc' = IF wfKind = "langgraph" \/ skip THEN "parse"
                           ELSE "generate"
                 /\ UNCHANGED rejection
  /\ UNCHANGED <<wfKind, nodes, agentCalls, emitted, returned>>
  /\ UNCHANGED <<execVars, clientVars, callVars, snapVars, facadeVars,
                 initVars, runVars, cacheVars, inflight, planVars>>

\* initialize() on an instance of the LangGraphWorkflow module
WFInitialize ==
  /\ wfKind = "langgraph"
  /\ Initialize

\* ---- LangGraphWorkflow
\* parseInputNode, then the edge parse -> execute
LGParse ==
  /\ wfKind = "langgraph" /\ wpc = "parse"
  /\ LET patch == IF ParseThrows(state.input)
                    THEN [error |-> <<"Markdown parsing failed", "TypeError">>,
                          currentStep |-> "complete"]
                    ELSE [scenario |-> ParseMarkdownToScenario(state.input),
                          currentStep |-> "execute"]
     IN /\ state' = Merge(state, patch)
        /\ Visit("parse", Merge(state, patch))
        /\ Emit(<<Merge(state, patch)>>)
  /\ wpc' = "execute"
  /\ UNCHANGED <<wfKind, streaming, skipGeneration, input, agentCalls, returned>>
  /\ UNCHANGED <<execVars, clientVars, callVars, snapVars, facadeVars,
                 initVars, runVars, cacheVars, rejection, inflight, planVars>>

\* executeTestNode, then the conditional edge through decideNextStep
LGExecute ==
  /\ wfKind = "langgraph" /\ wpc = "execute"
  /\ \E patch \in
        IF state.scenario = NoScenario
          THEN {[error |-> <<"No scenario to execute">>, currentStep |-> "complete"]}
          ELSE {[executionResult |-> r, currentStep |-> "analyze"] : r \in ExecResults}
               \cup {[error |-> <<"Test execution failed", m>>,
                      currentStep |-> "complete"] : m \in Messages} :
       /\ agentCalls' =
            IF state.scenario = NoScenario THEN agentCalls
            ELSE IF "error" \in DOMAIN patch
              THEN Append(agentCalls, Call("executor", FALSE, patch.error[2]))
              ELSE Append(agentCalls, Call("executor", TRUE, patch.executionResult))
       /\ state' = Merge(state, patch)
       /\ Visit("execute", Merge(state, patch))
       /\ Emit(<<Merge(state, patch)>>)
       /\ wpc' = decideNextStep(Merge(state, patch))
  /\ UNCHANGED <<wfKind, streaming, skipGeneration, input, returned>>
  /\ UNCHANGED <<execVars, clientVars, callVars, snapVars, facadeVars,
                 initVars, runVars, cacheVars, rejection, inflight, planVars>>

\* analyzeResultsNode, then the edge analyze -> END
LGAnalyze ==
  /\ wfKind = "langgraph" /\ wpc = "analyze"
  /\ \E patch \in
        IF state.scenario = NoScenario \/ state.executionResult = NoResult
          THEN {[error |-> <<"Missing data for analysis">>, currentStep |-> "complete"]}
          ELSE {[analysis |-> AgentAnalysis(state.executionResult),
                 currentStep |-> "complete"]}
               \cup {[error |-> <<"Analysis failed", m>>,
                      currentStep |-> "complete"] : m \in Messages} :
       /\ agentCalls' =
            IF state.scenario = NoScenario \/ state.executionResult = NoResult
              THEN agentCalls
            ELSE IF "error" \in DOMAIN patch
              THEN Append(agentCalls, Call("analysis", FALSE, patch.error[2]))
              ELSE Append(agentCalls, Call("analysis", TRUE, patch.analysis))
       /\ state' = Merge(state, patch)
       /\ Visit("analyze", Merge(state, patch))
       /\ Emit(<<Merge(state, patch)>>)
  /\ wpc' = "end"
  /\ UNCHANGED <<wfKind, streaming, skipGeneration, input, returned>>
  /\ UNCHANGED <<execVars, clientVars, callVars, snapVars, facadeVars,
                 initVars, runVars, cacheVars, rejection, inflight, planVars>>

\* a runStreaming that returns the state it started from
LGEndReturningInitialState ==
  /\ wfKind = "langgraph" /\ wpc = "end"
  /\ returned' = InitialState(input, "parse")
  /\ wpc' = "done"
  /\ UNCHANGED <<wfKind, streaming, skipGeneration, input, state, nodes,
                 agentCalls, emitted>>
  /\ UNCHANGED <<execVars, clientVars, callVars, snapVars, facadeVars,
                 initVars, runVars, cacheVars, rejection, inflight, planVars>>

\* app.invoke / the end of the stream: run() resolves with the final state
LGEnd ==
  /\ wfKind = "langgraph" /\ wpc = "end"
  /\ returned' = state
  /\ wpc' = "done"
  /\ UNCHANGED <<wfKind, streaming, skipGeneration, input, state, nodes,
                 agentCalls, emitted>>
  /\ UNCHANGED <<execVars, clientVars, callVars, snapVars, facadeVars,
                 initVars, runVars, cacheVars, rejection, inflight, planVars>>

\* ---- SimpleTestWorkflow
\* updateState({ currentStep }) of runStreaming before a node; run() has none
Announce(st, step) ==
  IF streaming THEN Merge(st, [currentStep |-> step]) ELSE st

\* the shared tail of a node of run()/runStreaming(): the node's result
\* replaces the state, is handed to the observer, and an error returns it
SimpleAfterNode(name, pre, new, next) ==
  /\ state' = new
  /\ Visit(name, new)
  /\ Emit(<<pre, new>>)
  /\ IF new.error # NoError
       THEN /\ returned' = new
            /\ wpc' = "done"
       ELSE /\ wpc' = next
            /\ UNCHANGED returned

\* generateScenario
SGenerate ==
  /\ wfKind = "simple" /\ wpc = "generate"
  /\ LET pre == Announce(state, "generate") IN
     \E patch \in
        IF ParseThrows(pre.input)
          THEN {[currentStep |-> "complete",
                 error |-> <<"Scenario generation failed", "TypeError">>]}
          ELSE {[scenario |-> ParseMarkdownToScenario(pre.input),
                 currentStep |-> "execute", error |-> NoError]}
               \cup {[currentStep |-> "complete",
                      error |-> <<"Scenario generation failed", m>>] : m \in Messages} :
       /\ agentCalls' =
            IF ParseThrows(pre.input) THEN agentCalls
            ELSE IF patch.error # NoError
              THEN Append(agentCalls, Call("scenario", FALSE, patch.error[2]))
              ELSE Append(agentCalls, Call("scenario", TRUE, patch.scenario))
       /\ SimpleAfterNode("generate", pre, Merge(pre, patch), "execute")
  /\ UNCHANGED <<wfKind, streaming, skipGeneration, input>>
  /\ UNCHANGED <<execVars, clientVars, callVars, snapVars, facadeVars,
                 initVars, runVars, cacheVars, rejection, inflight, planVars>>

\* parseStructuredInput
SParse ==
  /\ wfKind = "simple" /\ wpc = "parse"
  /\ LET pre == Announce(state, "parse")
         patch == IF ParseThrows(pre.input)
                    THEN [currentStep |-> "complete",
                          error |-> <<"Input parsing failed", "TypeError">>]
                    ELSE [scenario |-> ParseMarkdownToScenario(pre.input),
                          currentStep |-> "execute", error |-> NoError]
     IN SimpleAfterNode("parse", pre, Merge(pre, patch), "execute")
  /\ UNCHANGED <<wfKind, streaming, skipGeneration, input, agentCalls>>
  /\ UNCHANGED <<execVars, clientVars, callVars, snapVars, facadeVars,
                 initVars, runVars, cacheVars, rejection, inflight, planVars>>

\* executeTest
SExecute ==
  /\ wfKind = "simple" /\ wpc = "execute"
  /\ LET pre == Announce(state, "execute") IN
     \E patch \in
        IF pre.scenario = NoScenario
          THEN {[currentStep |-> "complete",
                 error |-> <<"No scenario available for execution">>]}
          ELSE {[executionResult |-> r, currentStep |-> "analyze",
                 error |-> NoError] : r \in ExecResults}
               \cup {[currentStep |-> "complete",
                      error |-> <<"Test execution failed", m>>] : m \in Messages} :
       /\ agentCalls' =
            IF pre.scenario = NoScenario THEN agentCalls
            ELSE IF patch.error # NoError
              THEN Append(agentCalls, Call("executor", FALSE, patch.error[2]))
              ELSE Append(agentCalls, Call("executor", TRUE, patch.executionResult))
       /\ SimpleAfterNode("execute", pre, Merge(pre, patch), "analyze")
  /\ UNCHANGED <<wfKind, streaming, skipGeneration, input>>
  /\ UNCHANGED <<execVars, clientVars, callVars, snapVars, facadeVars,
                 initVars, runVars, cacheVars, rejection, inflight, planVars>>

\* analyzeResults; runStreaming hands { ...state, currentStep: 'complete' }
\* to the observer through updateState, which also assigns it to the state
\* that is returned; run() returns the node's state
SAnalyze ==
  /\ wfKind = "simple" /\ wpc = "analyze"
  /\ LET pre == Announce(state, "analyze")
         missing == pre.scenario = NoScenario \/ pre.executionResult = NoResult
     IN
     \E patch \in
        IF missing
          THEN {[currentStep |-> "complete",
                 error |-> <<"Missing scenario or execution results for analysis">>]}
          ELSE {[analysis |-> AgentAnalysis(pre.executionResult),
                 currentStep |-> "complete", error |-> NoError]}
               \cup {[currentStep |-> "complete",
                      error |-> <<"Results analysis failed", m>>,
                      analysis |-> FallbackAnalysis(pre.executionResult)]
                     : m \in Messages} :
       /\ agentCalls' =
            IF missing THEN agentCalls
            ELSE IF patch.error # NoError
              THEN Append(agentCalls, Call("analysis", FALSE, patch.error[2]))
              ELSE Append(agentCalls, Call("analysis", TRUE, patch.analysis))
       /\ state' = Merge(pre, patch)
       /\ Visit("analyze", Merge(pre, patch))
       /\ Emit(<<pre, Merge(Merge(pre, patch), [currentStep |-> "complete"])>>)
       /\ returned' = IF streaming
                        THEN Merge(Merge(pre, patch), [currentStep |-> "complete"])
                        ELSE Merge(pre, patch)
       /\ wpc' = "done"
  /\ UNCHANGED <<wfKind, streaming, skipGeneration, input>>
  /\ UNCHANGED <<execVars, clientVars, callVars, snapVars, facadeVars,
                 initVars, runVars, cacheVars, rejection, inflight, planVars>>

InitWF ==
  /\ wfKind \in {"langgraph", "simple"}
  /\ wpc = "idle"
  /\ streaming = FALSE
  /\ skipGeneration = FALSE
  /\ input = Undefined
  /\ state = NoState
  /\ nodes = <<>>
  /\ agentCalls = <<>>
  /\ emitted = <<>>
  /\ returned = NoState
  /\ rejection = NoError

WFInit ==
  /\ InitExec /\ InitClient /\ InitCalls /\ InitWF /\ InitSnapshot
  /\ InitFacade /\ InitInstances /\ InitRuns /\ InitCache

WFNext ==
  \/ WFRun
  \/ WFInitialize
  \/ LGParse
  \/ LGExecute
  \/ LGAnalyze
  \/ LGEnd
  \/ SGenerate
  \/ SParse
  \/ SExecute
  \/ SAnalyze

WFSpec == WFInit /\ [][WFNext]_vars

\* ======================================================= executor claims
EventIdxs(e) == {n \in 1..Len(trace) : trace[n].ev = e}
DisconnectCalls == Cardinality(EventIdxs("disconnect"))
VerifierRan == EventIdxs("netidle") # {}

\* C1: step fail-fast.  When step k is the first step that fails, the
\* returned TestResult.steps has exactly k entries, k-1 passed followed by one
\* failed entry carrying the error, and no oracle call and no plan call is
\* made for a step after k.
C1_StepFailFast ==
  (pc = "done" /\ failedAt > 0) =>
    /\ Len(result.steps) = failedAt
    /\ \A k \in 1..(failedAt - 1) : result.steps[k].status = "passed"
    /\ result.steps[failedAt].status = "failed"
    /\ result.steps[failedAt].error # NoError
    /\ \A n \in 1..Len(trace) :
         trace[n].ev \in {"ai", "call"} => trace[n].idx <= failedAt

\* C2: resource cleanup.  When process() has returned, disconnect was invoked
\* exactly once during the run and the client reports not connected.
C2_CleanupOnce ==
  pc = "done" => (DisconnectCalls = 1 /\ ~ClientReady)

\* C3: outcome independence.  When outcome verification ran, every outcome
\* statement was evaluated, in input order, each with its own verdict, and
\* the run is failed if one of them was judged false.
C3_OutcomeIndependence ==
  (pc = "done" /\ VerifierRan) =>
    /\ \A k \in 1..Len(rawOutcomes) :
         rawOutcomes[k] # "" => \E n \in 1..Len(verdicts) : verdicts[n].idx = k
    /\ \A m, n \in 1..Len(verdicts) : m < n => verdicts[m].idx < verdicts[n].idx
    /\ (\E n \in 1..Len(verdicts) : ~verdicts[n].ok) => result.status = "failed"

\* C17: an oracle response that fails structural validation is a hard
\* failure of the call: a step whose plan response is invalid fails with an
\* error and no backend call is made for it, and an invalid verification
\* response is never turned into a verdict, passed or failed.
C17_InvalidResponseHardFailure ==
  /\ \A n \in 1..Len(trace) :
       (trace[n].ev = "ai" /\ trace[n].resp = "invalid") =>
         /\ \A m \in 1..Len(trace) :
              trace[m].ev = "call" => trace[m].idx # trace[n].idx
         /\ pc = "done" => (failedAt = trace[n].idx /\ result.status = "failed")
  /\ \A n \in 1..Len(verdicts) : verdicts[n].oracle # "invalid"

StepsAllPassed == result.status # "error" /\ failedAt = 0

\* C19: the outcome verifier is invoked if and only if every step passed and
\* there is at least one outcome statement: no verification call after a step
\* failure, and a run whose steps pass and which has no outcome statement
\* ends passed without a verification call.
C19_VerifierIff ==
  pc = "done" =>
    /\ VerifierRan <=> (StepsAllPassed /\ Len(rawOutcomes) > 0)
    /\ ~VerifierRan => EventIdxs("verify") = {}
    /\ (StepsAllPassed /\ Len(rawOutcomes) = 0) => result.status = "passed"

C19_Witness ==
  /\ pc = "done"
  /\ failedAt = 2
  /\ Len(rawOutcomes) > 0
  /\ ~VerifierRan

\* the backend accepted every call, the oracle gave a valid plan for every
\* step and judged every outcome true
AllAccepted ==
  /\ \A n \in 1..Len(rawSteps) : rawSteps[n] # ""
  /\ \A n \in 1..Len(rawOutcomes) : rawOutcomes[n] # ""
  /\ \A n \in 1..Len(trace) : trace[n].sent /\ trace[n].resp \in {"none", "valid"}
  /\ StepsAllPassed
  /\ \A n \in 1..Len(verdicts) : verdicts[n].ok

\* C20: end-to-end success.  When every call is accepted, every plan is valid
\* and every outcome is judged true, the result has status passed, one passed
\* StepResult per input step in input order, one passed OutcomeResult per
\* outcome, and the oracle was asked for exactly one plan per step.
C20_EndToEndSuccess ==
  (pc = "done" /\ AllAccepted) =>
    /\ result.status = "passed"
    /\ Len(result.steps) = Len(rawSteps)
    /\ \A k \in 1..Len(result.steps) :
         result.steps[k].stepId = RawStepId(k) /\ result.steps[k].status = "passed"
    /\ \A k \in 1..Len(rawSteps) :
         Cardinality({n \in EventIdxs("ai") : trace[n].idx = k}) = 1
    /\ Len(verdicts) = Len(rawOutcomes)
    /\ Len(rawOutcomes) > 0 =>
         /\ "outcomes" \in DOMAIN result
         /\ Len(result.outcomes) = Len(rawOutcomes)
         /\ \A k \in 1..Len(rawOutcomes) : result.outcomes[k].status = "passed"

\* the final-screenshot attempts of the cleanup phase
FinalShots == {n \in EventIdxs("shot") : trace[n].idx = 0}

ConnectFailed == EventIdxs("connect") # {} /\ EventIdxs("listTools") = {}

\* C22: status classification of a run that returned.  A failed connect gives
\* status error with the failure message and no step results; a failed step
\* gives status failed with the error on the failed StepResult of the result
\* and TestResult.error undefined; status passed only if no step failed and
\* no outcome was judged false.
C22_StatusClassification ==
  pc = "done" =>
    /\ ConnectFailed =>
         /\ result.status = "error"
         /\ result.error = <<"Connection failed">>
         /\ result.steps = <<>>
    /\ failedAt > 0 =>
         /\ result.status = "failed"
         /\ result.error = NoError
         /\ \E k \in 1..Len(result.steps) :
              /\ result.steps[k].status = "failed"
              /\ result.steps[k].error # NoError
    /\ result.status = "passed" =>
         /\ failedAt = 0
         /\ \A n \in 1..Len(verdicts) : verdicts[n].ok

\* C30: steps run strictly sequentially on a live snapshot.  Every request
\* of the run (to the oracle or to the backend) is issued only when no backend
\* request is in flight, so at most one is in flight at any time and the plan
\* of step N+1 is requested only after every call of step N's plan returned;
\* and the request to the oracle for a step directly follows the snapshot
\* taken after the previous step's plan (the initial snapshot for step 1).
C30_SequentialSteps ==
  /\ [](/\ inflight <= 1
        /\ \A n \in EventIdxs("ai") :
             /\ n > 1
             /\ trace[n - 1].ev = "snapshot"
             /\ trace[n - 1].idx = trace[n].idx - 1
             /\ \A m \in EventIdxs("call") :
                  trace[m].idx < trace[n].idx => m < n - 1)
  /\ [][trace' # trace => inflight = 0]_vars

\* the second call of the plan of step 2 is in flight
C30_Witness ==
  /\ pc = "planWait"
  /\ i = 2
  /\ inflight = 1
  /\ Len(plan) = 1
  /\ Cardinality({n \in EventIdxs("call") : trace[n].idx = 1}) = 2
  /\ Cardinality({n \in EventIdxs("call") : trace[n].idx = 2}) = 2

\* the calls sent for the plan of step k, in the order they were made
CallsOfStep(k) == SelectSeq(sentCalls, LAMBDA c : c.step = k)

\* the error the step's catch block builds from a failed call
CallFailure(c) ==
  IF c.sent THEN <<"MCP call failed", c.status>>
            ELSE <<"MCP call failed", NotConnectedMsg>>

CallFailed(c) == c.status \notin {"ok", "pending"}

\* the calls of every plan go out in plan order, one step after the other,
\* and nothing follows a call that failed
PlanOrderAndAbort ==
  /\ \A n \in 1..Len(sentCalls) :
       /\ sentCalls[n].step \in 1..Len(plans)
       /\ n > 1 => sentCalls[n - 1].step <= sentCalls[n].step
       /\ sentCalls[n].status # "ok" => n = Len(sentCalls)
  /\ \A k \in 1..Len(plans) :
       /\ Len(CallsOfStep(k)) <= Len(plans[k])
       /\ \A n \in 1..Len(CallsOfStep(k)) :
            CallsOfStep(k)[n].call = plans[k][n]

\* C31: the calls of one step's plan are executed in plan order and the step
\* is aborted at the first call that fails: no later call of the plan is
\* sent, and the error recorded for the step in the result is that call's
\* failure.
C31_PlanInOrderAbortOnFailure ==
  /\ PlanOrderAndAbort
  /\ (pc = "done" /\ sentCalls # <<>> /\ CallFailed(sentCalls[Len(sentCalls)])) =>
       LET c == sentCalls[Len(sentCalls)]
       IN  \E k \in 1..Len(result.steps) :
             /\ result.steps[k].stepId = RawStepId(c.step)
             /\ result.steps[k].status = "failed"
             /\ result.steps[k].error = CallFailure(c)

\* the screenshot attempts made for step or outcome k
ShotsFor(k) == {n \in 1..Len(trace) : trace[n].ev = "shot" /\ trace[n].idx = k}

\* C32: the failure screenshot is best-effort.  A run in which a step failed
\* attempted one failure screenshot and returned (nothing is thrown) with
\* TestResult.status failed; the step is recorded in TestResult.steps as
\* failed with its original error, whether or not the screenshot could be
\* taken; and a screenshot that was taken has its path on that failed
\* StepResult and in TestResult.screenshots.
C32_FailureScreenshotBestEffort ==
  (pc = "done" /\ failedAt > 0) =>
    /\ Cardinality(ShotsFor(failedAt)) = 1
    /\ result.status = "failed"
    /\ result.error = NoError
    /\ stepResult.status = "failed"
    /\ \E k \in 1..Len(result.steps) : result.steps[k] = stepResult
    /\ stepResult.screenshot # NoShot =>
         \E n \in 1..Len(result.screenshots) :
           result.screenshots[n] = stepResult.screenshot

\* the oracle calls of the outcome verifier, and the snapshots it took
VerifyCalls == {n \in 1..Len(trace) : trace[n].ev = "verify"}
VerifySnapshots ==
  {n \in 1..Len(trace) :
     /\ trace[n].ev = "snapshot"
     /\ trace[n].idx > 0
     /\ \E m \in 1..(n - 1) : trace[m].ev = "netidle"}

\* C33: outcome verification is batched.  A run whose verifier was given
\* n >= 1 (non-empty) outcome statements took one final snapshot and made
\* exactly one oracle call for the whole list, whatever n is.
C33_BatchedVerification ==
  (pc = "done" /\ VerifierRan /\ Len(rawOutcomes) >= 1
     /\ \A n \in 1..Len(rawOutcomes) : rawOutcomes[n] # "") =>
    /\ Cardinality(VerifySnapshots) = 1
    /\ Cardinality(VerifyCalls) = 1

\* the connection was established (the run went on to list the tools), and
\* by the time the run's cleanup called disconnect() a transport error or
\* close event had cleared isConnected
LostBeforeDisconnect ==
  /\ EventIdxs("listTools") # {}
  /\ trace[Len(trace)] = Ev("disconnect", 0, FALSE)

\* C36: a transport failure tears the connection down.  When a transport
\* error or close event has marked the client disconnected, the run's
\* cleanup (disconnect()) has closed the client, which terminates the child
\* process, and has released the handles by the time it returns: no spawned
\* backend is left behind a client that reports not connected.
C36_TransportFailureTearsDown ==
  (pc = "done" /\ LostBeforeDisconnect) =>
    /\ client = "null"
    /\ ~isConnected

\* the steps process() takes between its call and its return
ProcessStep ==
  \/ Connect \/ ListTools \/ InitSnap \/ StepBegin \/ PlanCall \/ PlanReturn
  \/ StepSnap \/ FailShot \/ AfterSteps \/ NetIdle \/ Outcome \/ OutcomeShot
  \/ A11y \/ FinalShot \/ Disconnect

\* the calls of the run that failed: not sent because the client was not
\* (or no longer) connected
FailedCalls(e) ==
  {n \in 1..Len(trace) : trace[n].ev = e /\ ~trace[n].sent}

\* C37: TestExecutorAgent.process always resolves with a TestResult.  Whatever
\* fails (connect, tool listing, a snapshot, an oracle call, a backend call,
\* a screenshot, disconnect), the run never rejects and is never stuck: it
\* goes on until it returns, and what it returns is a TestResult whose status
\* is passed, failed or error.  (So the catch of the execute node is only
\* reached by a process() that is not this one.)
C37_ProcessAlwaysResolves ==
  /\ pc # "rejected"
  /\ pc \notin {"idle", "done"} => ENABLED ProcessStep
  /\ pc = "done" =>
       /\ result.status \in Statuses
       /\ DOMAIN result = DOMAIN NewResult

\* a run that returned although its plan call, both screenshots and the
\* disconnect found the client disconnected
C37_Witness ==
  /\ pc = "done"
  /\ result.status = "failed"
  /\ FailedCalls("call") # {}
  /\ Cardinality(FailedCalls("shot")) = 2
  /\ FailedCalls("disconnect") # {}

FailedEntries ==
  {k \in 1..Len(result.steps) : result.steps[k].status = "failed"}

NodeNames == {nodes[n].node : n \in 1..Len(nodes)}
AgentsCalled == {agentCalls[n].agent : n \in 1..Len(agentCalls)}
Rejected(agent) ==
  \E n \in 1..Len(agentCalls) : agentCalls[n].agent = agent /\ ~agentCalls[n].ok

\* the first node is the parse node (parse, or generate for generated
\* scenarios) and it set error
ParseFailed ==
  /\ Len(nodes) >= 1
  /\ nodes[1].node \in {"parse", "generate"}
  /\ nodes[1].st.error # NoError

\* C4: orchestrator short-circuit.  If the parse node sets error, neither the
\* execute node nor the analyze node is invoked, the executor agent and the
\* analysis agent are never called, and currentStep ends as complete.
C4_ParseShortCircuit ==
  ParseFailed =>
    /\ NodeNames \cap {"execute", "analyze"} = {}
    /\ AgentsCalled \cap {"executor", "analysis"} = {}
    /\ wpc = "done" => returned.currentStep = "complete"

\* C5: no exception crosses a node boundary.  Every failure of the parsing
\* step, of the executor agent or of the analysis agent ends in a resolved
\* run whose error field holds that failure's message.
C5_ErrorHoldsFailure ==
  wpc = "done" =>
    \A n \in 1..Len(nodes) :
      Len(nodes[n].st.error) = 2 => returned.error = nodes[n].st.error

\* C6: in every state returned or handed to the observer, a set error comes
\* with currentStep = complete, and no node is invoked after a state in which
\* error is set.
C6_ErrorForcesComplete ==
  /\ \A k \in 1..Len(emitted) :
       emitted[k].error # NoError => emitted[k].currentStep = "complete"
  /\ wpc = "done" =>
       (returned.error # NoError => returned.currentStep = "complete")
  /\ \A n \in 1..(Len(nodes) - 1) : nodes[n].st.error = NoError

\* C7: if the executor agent rejects, analyze is never invoked and the run
\* ends with error 'Test execution failed: <message>' and currentStep
\* complete; if execute succeeds analyze is the next node; after analyze,
\* successful or not, currentStep is complete.
C7_ExecuteRouting ==
  wpc = "done" =>
    /\ \A n \in 1..Len(agentCalls) :
         (agentCalls[n].agent = "executor" /\ ~agentCalls[n].ok) =>
           /\ "analyze" \notin NodeNames
           /\ returned.error = <<"Test execution failed", agentCalls[n].val>>
           /\ returned.currentStep = "complete"
    /\ \A n \in 1..Len(nodes) :
         (nodes[n].node = "execute" /\ nodes[n].st.error = NoError) =>
           (n < Len(nodes) /\ nodes[n + 1].node = "analyze")
    /\ "analyze" \in NodeNames => returned.currentStep = "complete"

C7_Witness ==
  /\ wpc = "done"
  /\ Rejected("executor")
  /\ returned.error[1] = "Test execution failed"

\* C8: when the parse node fails, the error of the state returned by run() is
\* the parse failure message; no later node replaces it.
C8_ParseErrorKept ==
  (wpc = "done" /\ ~streaming /\ ParseFailed) =>
    returned.error = nodes[1].st.error

\* C9: a failing node leaves what earlier nodes produced: after a failed
\* execute the final state still holds the scenario produced by parse; after
\* a failed analyze it holds the same scenario and the same executionResult,
\* together with the error.
C9_FailureKeepsEarlier ==
  wpc = "done" =>
    \A n \in 2..Len(nodes) :
      (nodes[n].node \in {"execute", "analyze"} /\ nodes[n].st.error # NoError
       /\ nodes[n - 1].st.error = NoError) =>
        /\ nodes[n - 1].st.scenario = ParseMarkdownToScenario(input)
        /\ returned.scenario = nodes[n - 1].st.scenario
        /\ returned.executionResult = nodes[n - 1].st.executionResult
        /\ nodes[n].node = "analyze" =>
             returned.executionResult \in ExecResults
        /\ returned.error = nodes[n].st.error

C9_Witness ==
  /\ wpc = "done"
  /\ Rejected("analysis")
  /\ returned.scenario # NoScenario
  /\ returned.executionResult # NoResult
  /\ returned.error # NoError

\* position of a node in the order parse, execute, analyze
NodeRank(name) ==
  IF name \in {"parse", "generate"} THEN 1
  ELSE IF name = "execute" THEN 2 ELSE 3

\* C23: streaming.  With an observer, the observer has received the merged
\* state left by every node that ran so far, in the order the nodes ran
\* (parse, then execute, then analyze), and nothing for a node that did not
\* run: LangGraphWorkflow emits one state per node, SimpleTestWorkflow the
\* announcement of the node followed by the state the node left.  Without an
\* observer nothing is emitted, and in both cases the run resolves with the
\* state left by the last node.
C23_StreamingEmitsPerNode ==
  /\ \A m, n \in 1..Len(nodes) :
       m < n => NodeRank(nodes[m].node) < NodeRank(nodes[n].node)
  /\ (streaming /\ wfKind = "langgraph") =>
       /\ Len(emitted) = Len(nodes)
       /\ \A n \in 1..Len(nodes) : emitted[n] = nodes[n].st
  /\ (streaming /\ wfKind = "simple") =>
       /\ Len(emitted) = 2 * Len(nodes)
       /\ \A n \in 1..Len(nodes) :
            /\ emitted[2 * n - 1].currentStep = nodes[n].node
            /\ emitted[2 * n] = nodes[n].st
  /\ ~streaming => emitted = <<>>
  /\ wpc = "done" => (nodes # <<>> /\ returned = nodes[Len(nodes)].st)

\* a streamed run in which the execute node failed: two emissions, the last
\* one carrying the error, none for analyze
C23_Witness ==
  /\ wpc = "done"
  /\ streaming
  /\ wfKind = "langgraph"
  /\ Len(nodes) = 2
  /\ Len(emitted) = 2
  /\ emitted[1].scenario # NoScenario
  /\ emitted[2].error[1] = "Test execution failed"

\* the calls made on one agent
CallsOf(agent) == {n \in 1..Len(agentCalls) : agentCalls[n].agent = agent}

NoNodeFailed == \A n \in 1..Len(nodes) : nodes[n].st.error = NoError

\* C24: a run of an initialized LangGraphWorkflow that resolved ended with
\* currentStep = complete, having invoked each node at most once and only in
\* the order parse, execute, analyze; when no node failed, the parsing agent,
\* the executor agent and the analysis agent were each invoked exactly once,
\* error is undefined, and executionResult and analysis are the values the
\* executor and the analysis agent returned.
C24_RunCompletes ==
  (wfKind = "langgraph" /\ wpc = "done") =>
    /\ returned.currentStep = "complete"
    /\ \A m, n \in 1..Len(nodes) :
         m < n => NodeRank(nodes[m].node) < NodeRank(nodes[n].node)
    /\ NoNodeFailed =>
         /\ \A agent \in {"parsing", "executor", "analysis"} :
              Cardinality(CallsOf(agent)) = 1
         /\ returned.error = NoError
         /\ \A n \in CallsOf("executor") :
              returned.executionResult = agentCalls[n].val
         /\ \A n \in CallsOf("analysis") :
              returned.analysis = agentCalls[n].val

\* C28: a scenario with no test steps is never executed.  When the parse
\* node finds no raw step it fails with 'The test scenario must contain at
\* least one test step', the executor is not invoked, and the run does not
\* report status passed.
C28_EmptyScenarioRejected ==
  (/\ Len(nodes) >= 1
   /\ nodes[1].node = "parse"
   /\ ~ParseThrows(input)
   /\ ~HasRawSteps(ParseMarkdownToScenario(input))) =>
    /\ nodes[1].st.error # NoError
    /\ nodes[1].st.error[1] = "The test scenario must contain at least one test step"
    /\ "executor" \notin AgentsCalled
    /\ wpc = "done" => returned.executionResult.status # "passed"

C39_LastEmittedIsReturned ==
  (wpc = "done" /\ streaming) =>
    /\ emitted # <<>>
    /\ emitted[Len(emitted)] = returned

\* a streamed run of SimpleTestWorkflow that stopped at a failed execute
\* node and returned
C39_Witness ==
  /\ wpc = "done" /\ streaming
  /\ wfKind = "simple"
  /\ returned.error # NoError
  /\ returned.executionResult = NoResult
  /\ returned.scenario # NoScenario

\* C40: whenever a final workflow state carries an analysis, analysis.passed
\* is true if and only if executionResult.status is passed, both for an
\* analysis produced by the analysis agent and for the fallback analysis
\* recorded when the analysis step fails.
C40_AnalysisPassedMatchesStatus ==
  (wpc = "done" /\ returned.analysis # NoAnalysis) =>
    /\ returned.executionResult # NoResult
    /\ returned.analysis.passed <=>
         (returned.executionResult.status = "passed")

\* a run whose execution ended with status error and whose analysis step
\* failed: the fallback analysis says not passed
C40_Witness ==
  /\ wpc = "done"
  /\ returned.analysis # NoAnalysis
  /\ returned.analysis.summary = "Analysis failed due to error"
  /\ returned.executionResult.status = "error"
  /\ ~returned.analysis.passed

\* ============================================= overlapping-run claims
\* run r is between its connect and its cleanup on the connection c
Using(r, c) ==
  /\ rpc[r] = "calls"
  /\ mcpClient[rexec[r]].client = c

\* C25: no two runs share one backend connection.  Every backend call of a
\* run goes through a connection that was opened for that run; every
\* connection is built from the configuration of the workflow instance whose
\* run opened it; and no step closes a connection that another run is still
\* using.
C25_NoSharedConnection ==
  /\ [](/\ \A n \in DOMAIN rtrace : conns[rtrace[n].conn].by = rtrace[n].run
        /\ \A c \in DOMAIN conns : conns[c].config = winst[conns[c].by])
  /\ [][\A c \in DOMAIN conns :
          (conns[c].open /\ ~conns'[c].open) =>
            \A r \in Runs : ~Using(r, c)]_vars

\* ========================================================= client claims
\* C10: timeout isolation.  A call that times out rejects only that call: the
\* step that times it out leaves the client connected and leaves every other
\* call as it was, so a later call on the still-connected client is sent and
\* can succeed.
C10_TimeoutIsolation ==
  [][\A c \in DOMAIN calls :
       (calls[c].status = "pending" /\ calls'[c].status = "timeout") =>
         /\ isConnected' = isConnected
         /\ client' = client
         /\ \A d \in DOMAIN calls \ {c} : calls'[d] = calls[d]]_vars

C10_Witness ==
  /\ ClientReady
  /\ \E c \in DOMAIN calls : calls[c].status = "ok" /\ calls[c].after > 0
  /\ \E c \in DOMAIN calls : calls[c].status = "pending"

\* a step that appends an invocation of one of the ops to the log
Invoked(ops) ==
  /\ Len(calls') = Len(calls) + 1
  /\ calls'[Len(calls')].op \in ops

\* C11: whenever the client is not connected (never connected, after
\* disconnect(), after a transport error or close), callTool and listTools
\* reject at once with the not-connected error and send nothing, and
\* disconnect() resolves; once connect() has succeeded the client reports
\* connected and calls are sent.
C11_NotConnectedFailsFast ==
  [][/\ (Invoked(Requests) /\ ~(isConnected /\ client # "null")) =>
          /\ calls'[Len(calls')].status = "notconnected"
          /\ ~calls'[Len(calls')].sent
     /\ (Invoked({"disconnect"}) /\ ~(isConnected /\ client # "null")) =>
          /\ calls'[Len(calls')].status = "ok"
          /\ ~calls'[Len(calls')].sent
     /\ (~isConnected /\ isConnected') => client' # "null"
     /\ (Invoked(Requests) /\ isConnected /\ client # "null") =>
          /\ calls'[Len(calls')].status = "pending"
          /\ calls'[Len(calls')].sent]_vars

C11_Witness ==
  /\ ~isConnected /\ client # "null"
  /\ \E a, b, c \in DOMAIN calls :
       /\ a < b /\ b < c
       /\ calls[a].op \in Requests /\ calls[a].sent
       /\ calls[b].op \in Requests /\ calls[b].status = "notconnected"
       /\ calls[c].op = "disconnect" /\ calls[c].status = "ok" /\ ~calls[c].sent

\* C12: a transport error marks the client disconnected and rejects every
\* call that is pending at that moment (so none of them stays unresolved).
C12_TransportErrorRejectsPending ==
  [][(isConnected /\ ~isConnected' /\ client' = client) =>
       \A c \in DOMAIN calls :
         calls[c].status = "pending" => calls'[c].status = "closed"]_vars

\* C13: disconnect() on a connected client rejects all pending requests,
\* ends the backend process and releases the handles; afterwards nothing is
\* pending and the client reports not connected.
C13_DisconnectClosesAll ==
  [][(Invoked({"disconnect"}) /\ isConnected /\ client # "null") =>
       /\ ~isConnected'
       /\ client' = "null"
       /\ \A c \in DOMAIN calls' : calls'[c].status # "pending"]_vars

\* ========================================================= parser claims
IsBlank(l) == \A k \in 1..Len(l) : l[k] = " "
IsComment(l) ==
  \E k \in 1..Len(l) : l[k] = "#" /\ \A m \in 1..(k - 1) : l[m] = " "
CarriesRef(l) ==
  \E p, q \in 1..Len(l) :
    /\ p + 1 < q
    /\ l[p] = "[ref=" /\ l[q] = "]"
    /\ \A k \in (p + 1)..(q - 1) : l[k] # "]"

\* C15: snapshot parsing is total and order-preserving.  Every line handled
\* leaves the list as it was if the line is blank, a comment or carries no
\* [ref=<id>] token, and otherwise appends exactly one element, which comes
\* from that line; so elements are in the order of their source lines.
C15_ParserTotalOrdered ==
  [][snapCount' = snapCount + 1 =>
       IF IsBlank(snapLine') \/ IsComment(snapLine') \/ ~CarriesRef(snapLine')
         THEN elements' = elements
         ELSE /\ Len(elements') = Len(elements) + 1
              /\ SubSeq(elements', 1, Len(elements)) = elements
              /\ elements'[Len(elements')].line = snapCount'
              /\ \A n \in 1..Len(elements) :
                   elements[n].line < snapCount']_vars

C15_Witness ==
  /\ snapCount = 3
  /\ Len(elements) = 2
  /\ elements[1].line = 1 /\ elements[2].line = 3
  /\ elements[1].ref # elements[2].ref

\* the line just handled gave the last element of the list
LastParsed ==
  elements # <<>> /\ elements[Len(elements)].line = snapCount

\* the components a line of the documented form is built from
Words == {<<"e">>, <<"f">>}
FreeTexts == {<<"e">>, <<"f", " ", "e">>}

\* the line starts with its dash and no role follows it
NoLeadingRole(l) ==
  /\ l # <<>> /\ l[1] = "-"
  /\ \A k \in 2..Len(l) :
       (\A m \in 2..(k - 1) : l[m] = " ") => ~IsWord(l[k])

Marked(l, marker) ==
  \E p \in 1..Len(l) :
    p + 2 <= Len(l) /\ l[p] = "[" /\ l[p + 1] = marker /\ l[p + 2] = "]"

\* C35: field extraction of the snapshot parser.  A line of the form
\* '- <role> "<name>" [ref=<id>]: <free text>' yields an element with
\* ref = <id>, type = <role>, name = <name> and text = <free text>; a line
\* with no leading role gets type generic; disabled and active are true
\* exactly when the line carries the [disabled] and [active] markers.
C35_FieldExtraction ==
  LastParsed =>
    LET el == elements[Len(elements)]
        l == Trim(snapLine)
    IN /\ \A role \in Words, name \in Words, id \in Words, text \in FreeTexts :
            l = ElementLine(role, name, id, text) =>
              /\ el.ref = id
              /\ el.type = role
              /\ el.name = name
              /\ el.text = text
       /\ NoLeadingRole(l) => el.type = Generic
       /\ el.disabled <=> Marked(l, "disabled")
       /\ el.active <=> Marked(l, "active")

\* ========================================================= facade claims
\* C16: every failure of the protocol client propagates unchanged through the
\* facade: a connect, callTool, navigate or getSnapshot whose client call
\* failed rejects with that same error, and no facade call sends a backend
\* request twice.
C16_FacadePropagates ==
  \A n \in 1..Len(fcalls) :
    fcalls[n].op \in {"connect", "callTool", "navigate", "getSnapshot"} =>
      /\ fcalls[n].failure # NoError => fcalls[n].thrown = fcalls[n].failure
      /\ \A a, b \in 1..Len(fcalls[n].requests) :
           a # b => fcalls[n].requests[a] # fcalls[n].requests[b]

\* C26: the advertised operations are queried and cached once per
\* connection.  Over connect, disconnect and the three lookups, exactly one
\* tools/list request was sent on every established connection, no lookup
\* sent a request, and every lookup reported the tools advertised on the
\* connection current at that moment: none when there was no connection,
\* never those of an earlier connection.
C26_ToolCachePerConnection ==
  /\ \A c \in DOMAIN connections : connections[c].listed = 1
  /\ \A n \in DOMAIN lookups :
       /\ lookups[n].requests = <<>>
       /\ lookups[n].reported =
            IF lookups[n].conn = 0 THEN {}
            ELSE connections[lookups[n].conn].tools

\* the navigation calls that succeeded
Navigated == {n \in DOMAIN navigations : navigations[n].failure = NoError}

\* C27: currentUrl tracks the last navigation.  It is null while no
\* navigation call has succeeded and otherwise equals the url argument of the
\* most recent navigation call that succeeded; failed navigations and other
\* operations leave it as it is.
C27_CurrentUrlTracksNavigation ==
  currentUrl =
    IF Navigated = {} THEN "null"
    ELSE navigations[CHOOSE n \in Navigated : \A m \in Navigated : m <= n].url
====
